---- MODULE Spec2Model ----
(***************************************************************************)
(* State-machine model of ACOROTA.py: the monthly front-desk rota          *)
(* generator.  One run of the "Generate Rota" handler is modelled as       *)
(*   GenerateRotaButton (reset + generate_dates + start of generate_rota)  *)
(*   ClosureDay / StaffedDay (one iteration of the loop over dates)        *)
(*   ReturnAndValidate (end of generate_rota + validate_shifts)            *)
(* Dates are day numbers of the target month; staff are referred to by     *)
(* their index in staff_list (the Python code passes dict references).     *)
(***************************************************************************)
EXTENDS Integers, Sequences, FiniteSets, TLC

\* ------------------------------------------------------------------ bounds
NumDays == 5        \* days in the modelled month (monthrange gives 28..31)
MaxStaff == 2       \* length of the roster
MaxRuns == 2        \* presses of the Generate Rota button
MaxRows == 2        \* rows of a schedule handed to validate_shifts directly

\* --------------------------------------------------------------- constants
None == "None"
CLOSED == "CLOSED"
UNASSIGNED == "UNASSIGNED"
UniversityClosure == "University Closure"
OnHoliday == "On Holiday: "
Bar == " | "
Comma == ", "
AssignedOnHoliday == " assigned on holiday: "
InvalidDateFormat == "Invalid date format in "

\* names of the seeded roster, in roster order
StaffNames == <<"John", "Jane", "Cheryl", "Claire", "Sarmad">>

\* office-day sets a roster member may have: two of the seeded ones (Jane's
\* and Claire's) and "every weekday"
OfficeDayChoices == {{0, 1, 2}, {2, 3, 4}, {0, 1, 2, 3, 4}}

\* weekday of the first day of the month, as calendar.monthrange returns it:
\* a month that starts on a Monday and one that starts on a Thursday
FirstWeekdays == {0, 3}

\* holiday selections of one staff member (multiselect over all dates of the
\* month, weekends included)
HolidayChoices == {{}, {2}, {1, 3}}

\* closure selections (multiselect over all dates of the month); the last one
\* closes every date
ClosureChoices == {{}, {3}, {1, 4}, 1..NumDays}

DayNames == <<"Monday", "Tuesday", "Wednesday", "Thursday", "Friday",
              "Saturday", "Sunday">>

Policies == {"random", "first"}

VARIABLES
    first_weekday,        \* monthrange(year, month)[0]
    staff_list,           \* sequence of staff records
    closure_days,         \* set of dates
    policy,               \* how random.choice resolves: "random" or "first"
    working_dates,        \* result of generate_dates
    date_idx,             \* position of the for loop in dates
    rota_data,            \* entries appended so far
    last_assigned_staff,  \* name or None
    warnings,             \* result of validate_shifts
    pc,                   \* "idle", "loop", "done"
    runs,                 \* number of button presses so far
    prev_rota,            \* rota_data of the run before, kept for comparison
                          \* when random.choice is replaced by pick-first
    prev_summary          \* shift summary of the run before, kept likewise

vars == <<first_weekday, staff_list, closure_days, policy, working_dates,
          date_idx, rota_data, last_assigned_staff, warnings, pc, runs,
          prev_rota, prev_summary>>

inputs == <<first_weekday, closure_days, policy>>

\* ---------------------------------------------------------------- helpers
Indices(seq) == 1..Len(seq)

RECURSIVE Iota(_)
Iota(n) == IF n = 0 THEN <<>> ELSE Append(Iota(n - 1), n)

\* date.weekday(): 0 = Monday .. 6 = Sunday
weekday(date) == (first_weekday + date - 1) % 7

\* date.strftime('%d/%m/%Y'): the two digits of the day; month and year are
\* the same for every date of the target month
strftime_date(date) == <<date \div 10, date % 10>>

\* datetime.strptime(s, '%d/%m/%Y').date()
strptime_date(s) == s[1] * 10 + s[2]

\* date.strftime('%A')
strftime_day(date) == DayNames[weekday(date) + 1]

\* generate_dates: the dates of the month with weekday() < 5, ascending
generate_dates == SelectSeq(Iota(NumDays), LAMBDA d : weekday(d) < 5)

\* ", ".join(names)
RECURSIVE join(_)
join(names) ==
    IF Len(names) = 0 THEN <<>>
    ELSE IF Len(names) = 1 THEN names
    ELSE <<names[1], Comma>> \o join(Tail(names))

\* variant: only members whose office day it is are listed
holiday_names_office_only(date) ==
    LET idxs == SelectSeq(Iota(Len(staff_list)),
                    LAMBDA k : /\ date \in staff_list[k].holidays
                               /\ weekday(date) \in staff_list[k].office_days)
    IN [j \in Indices(idxs) |-> staff_list[idxs[j]].name]

\* [s['name'] for s in staff if date in s['holidays']]
RECURSIVE NamesOf(_)
NamesOf(idxs) ==
    IF idxs = <<>> THEN <<>>
    ELSE <<staff_list[Head(idxs)].name>> \o NamesOf(Tail(idxs))

holiday_names(date) ==
    NamesOf(SelectSeq(Iota(Len(staff_list)),
                      LAMBDA k : date \in staff_list[k].holidays))

\* the Notes of a closure entry (lines 48-53)
closure_note(date) ==
    IF holiday_names(date) # <<>>
    THEN <<UniversityClosure, Bar, OnHoliday>> \o join(holiday_names(date))
    ELSE <<UniversityClosure>>

\* the Notes of a non-closure entry (lines 105-110); entry['Notes'] is ''
\* on this path
holiday_note(date) ==
    IF holiday_names(date) # <<>>
    THEN <<OnHoliday>> \o join(holiday_names(date))
    ELSE <<>>

new_entry(date, shift, notes) ==
    [Date |-> strftime_date(date), Day |-> strftime_day(date),
     Shift |-> shift, Notes |-> notes]

\* variant: a closure counts only when nobody could work that day
is_closure_when_nobody_available(date) ==
    /\ date \in closure_days
    /\ \A k \in Indices(staff_list) :
          \/ weekday(date) \notin staff_list[k].office_days
          \/ date \in staff_list[k].holidays

is_closure(date) == date \in closure_days

\* variant: the primary pool without the holiday test
available_staff_ignoring_holidays(date) ==
    SelectSeq(Iota(Len(staff_list)),
              LAMBDA k : /\ weekday(date) \in staff_list[k].office_days
                         /\ date \notin staff_list[k].assigned_dates)

\* variant: the primary pool without the office-day test
available_staff_any_weekday(date) ==
    SelectSeq(Iota(Len(staff_list)),
              LAMBDA k : /\ date \notin staff_list[k].holidays
                         /\ date \notin staff_list[k].assigned_dates)

\* primary pool (lines 62-67), as staff indices in roster order
available_staff(date) ==
    SelectSeq(Iota(Len(staff_list)),
              LAMBDA k : /\ weekday(date) \in staff_list[k].office_days
                         /\ date \notin staff_list[k].holidays
                         /\ date \notin staff_list[k].assigned_dates)

\* fallback pool (lines 76-79)
back_to_back_candidates(date) ==
    SelectSeq(Iota(Len(staff_list)),
              LAMBDA k : /\ weekday(date) \in staff_list[k].office_days
                         /\ date \notin staff_list[k].holidays)

\* variant: the filter applied even when it empties the pool
avoid_last_always(pool) ==
    IF last_assigned_staff # None
    THEN SelectSeq(pool, LAMBDA k : staff_list[k].name # last_assigned_staff)
    ELSE pool

\* variant: no consecutive-avoidance filter at all
avoid_last_never(pool) == pool

\* consecutive-avoidance filter (lines 69-72 and 80-83)
avoid_last(pool) ==
    IF last_assigned_staff # None
    THEN LET filtered == SelectSeq(pool,
                 LAMBDA k : staff_list[k].name # last_assigned_staff)
         IN IF filtered # <<>> THEN filtered ELSE pool
    ELSE pool

\* variant: max() where min() is meant
max_shifts(pool) ==
    CHOOSE m \in {staff_list[pool[j]].shift_count : j \in Indices(pool)} :
        \A j \in Indices(pool) : m >= staff_list[pool[j]].shift_count

\* min(s['shift_count'] for s in pool)
min_shifts(pool) ==
    CHOOSE m \in {staff_list[pool[j]].shift_count : j \in Indices(pool)} :
        \A j \in Indices(pool) : m <= staff_list[pool[j]].shift_count

\* variant: no restriction to the minimum shift count
candidates_all(pool) == pool

\* [s for s in pool if s['shift_count'] == min_shifts]
candidates(pool) ==
    SelectSeq(pool, LAMBDA k : staff_list[k].shift_count = min_shifts(pool))

\* the pool the selection is made from: the primary pool after the filter,
\* or, when that is empty, the fallback pool after the filter
selection_pool(date) ==
    IF avoid_last(available_staff(date)) # <<>>
    THEN avoid_last(available_staff(date))
    ELSE avoid_last(back_to_back_candidates(date))

\* variant: the tie-break stays random whatever the policy
choice_any(cands) == {cands[j] : j \in Indices(cands)}

\* random.choice(candidates): the staff indices it may return
choice(cands) ==
    IF policy = "first" THEN {cands[1]} ELSE {cands[j] : j \in Indices(cands)}

\* variant: every member's assigned_dates is one shared set
assign_shared_dates(sel, date) ==
    [k \in Indices(staff_list) |->
        IF k = sel
        THEN [staff_list[k] EXCEPT !.assigned_dates = @ \cup {date},
                                   !.shift_count = @ + 1]
        ELSE [staff_list[k] EXCEPT !.assigned_dates = @ \cup {date}]]

\* variant: the date is recorded but the count is not incremented
assign_no_count(sel, date) ==
    [staff_list EXCEPT ![sel].assigned_dates = @ \cup {date}]

\* variant: the count is incremented but the date is not recorded
assign_no_date(sel, date) ==
    [staff_list EXCEPT ![sel].shift_count = @ + 1]

\* selected['assigned_dates'].add(date); selected['shift_count'] += 1
assign(sel, date) ==
    [staff_list EXCEPT ![sel].assigned_dates = @ \cup {date},
                       ![sel].shift_count = @ + 1]

\* variant: the reset clears the counts but keeps the assigned dates
reset_staff_keeping_dates ==
    [k \in Indices(staff_list) |->
        [staff_list[k] EXCEPT !.shift_count = 0]]

\* variant: the reset clears the assigned dates but keeps the counts
reset_staff_keeping_counts ==
    [k \in Indices(staff_list) |->
        [staff_list[k] EXCEPT !.assigned_dates = {}]]

\* the button handler's reset (lines 175-177)
reset_staff ==
    [k \in Indices(staff_list) |->
        [staff_list[k] EXCEPT !.assigned_dates = {}, !.shift_count = 0]]

\* the shift summary (line 203)
summary ==
    [k \in Indices(staff_list) |->
        [Name |-> staff_list[k].name,
         ShiftCount |-> staff_list[k].shift_count]]

\* strptime raises ValueError (line 121) unless the text is two digits that
\* name a day of the month
raises_ValueError(s) ==
    \/ Len(s) # 2
    \/ strptime_date(s) \notin 1..NumDays

\* variant: the row's Shift is not compared with the staff member's name
row_warnings_any_shift(row) ==
    IF raises_ValueError(row.Date)
    THEN << <<InvalidDateFormat, row.Date>> >>
    ELSE LET date == strptime_date(row.Date)
             hits == SelectSeq(Iota(Len(staff_list)),
                         LAMBDA k : date \in staff_list[k].holidays)
         IN [j \in Indices(hits) |->
                <<staff_list[hits[j]].name, AssignedOnHoliday, row.Date>>]

\* the warnings one row adds (lines 119-126)
row_warnings(row) ==
    IF raises_ValueError(row.Date)
    THEN << <<InvalidDateFormat, row.Date>> >>
    ELSE LET date == strptime_date(row.Date)
             hits == SelectSeq(Iota(Len(staff_list)),
                         LAMBDA k : /\ row.Shift = staff_list[k].name
                                    /\ date \in staff_list[k].holidays)
         IN [j \in Indices(hits) |->
                <<staff_list[hits[j]].name, AssignedOnHoliday, row.Date>>]

\* variant: each row's warnings are put in front of the ones collected so far
RECURSIVE validate_shifts_prepend(_)
validate_shifts_prepend(df) ==
    IF df = <<>> THEN <<>>
    ELSE validate_shifts_prepend(Tail(df)) \o row_warnings(Head(df))

\* validate_shifts(df, staff): warnings in row order, roster order in a row
RECURSIVE validate_shifts(_)
validate_shifts(df) ==
    IF df = <<>> THEN <<>>
    ELSE row_warnings(Head(df)) \o validate_shifts(Tail(df))

\* ------------------------------------------------------------------- Init
Rosters ==
    UNION {[1..n -> OfficeDayChoices \X HolidayChoices]
           : n \in 0..MaxStaff}

staff_of(r) ==
    [k \in Indices(r) |->
        [name |-> StaffNames[k], office_days |-> r[k][1],
         holidays |-> r[k][2], assigned_dates |-> {}, shift_count |-> 0]]

Init ==
    /\ first_weekday \in FirstWeekdays
    /\ staff_list \in {staff_of(r) : r \in Rosters}
    /\ closure_days \in ClosureChoices
    /\ policy \in Policies
    /\ working_dates = <<>>
    /\ date_idx = 1
    /\ rota_data = <<>>
    /\ last_assigned_staff = None
    /\ warnings = <<>>
    /\ pc = "idle"
    /\ runs = 0
    /\ prev_rota = <<>>
    /\ prev_summary = <<>>

\* Date texts of a schedule handed to validate_shifts: three days of the
\* month and day 00, which strptime rejects
ScheduleDates == {<<0, 0>>, <<0, 1>>, <<0, 2>>, <<0, 3>>}

Schedules ==
    UNION {[1..n -> [Date : ScheduleDates,
                     Day : {DayNames[1]},
                     Shift : {StaffNames[k] : k \in 1..MaxStaff}
                                \cup {UNASSIGNED},
                     Notes : {<<>>}]]
           : n \in 0..MaxRows}

ValidatorRosters ==
    UNION {[1..n -> {{0, 1, 2, 3, 4}} \X HolidayChoices] : n \in 0..MaxStaff}

\* validate_shifts applied to any schedule and roster
InitValidator ==
    /\ first_weekday = 0
    /\ staff_list \in {staff_of(r) : r \in ValidatorRosters}
    /\ closure_days = {}
    /\ policy = "random"
    /\ working_dates = <<>>
    /\ date_idx = 1
    /\ rota_data \in Schedules
    /\ last_assigned_staff = None
    /\ warnings = <<>>
    /\ pc = "validate"
    /\ runs = 0
    /\ prev_rota = <<>>
    /\ prev_summary = <<>>

\* ---------------------------------------------------------------- actions
\* lines 173-181 up to the first loop iteration, and lines 36-37
GenerateRotaButton ==
    /\ pc \in {"idle", "done"}
    /\ runs < MaxRuns
    /\ staff_list' = reset_staff
    /\ working_dates' = generate_dates
    /\ rota_data' = <<>>
    /\ last_assigned_staff' = None
    /\ date_idx' = 1
    /\ warnings' = <<>>
    /\ prev_rota' = IF policy = "first" THEN rota_data ELSE <<>>
    /\ prev_summary' =
          IF policy = "first" /\ pc = "done" THEN summary ELSE <<>>
    /\ runs' = runs + 1
    /\ pc' = "loop"
    /\ UNCHANGED inputs

\* variant: the closure branch continues without appending its entry
ClosureDay_no_append ==
    /\ pc = "loop"
    /\ date_idx <= Len(working_dates)
    /\ is_closure(working_dates[date_idx])
    /\ last_assigned_staff' = None
    /\ date_idx' = date_idx + 1
    /\ UNCHANGED <<inputs, staff_list, working_dates, warnings, pc, runs,
                   prev_rota, prev_summary, rota_data>>

\* variant: the closure branch leaves last_assigned_staff as it is
ClosureDay_keeps_last ==
    /\ pc = "loop"
    /\ date_idx <= Len(working_dates)
    /\ is_closure(working_dates[date_idx])
    /\ rota_data' = Append(rota_data,
           new_entry(working_dates[date_idx], CLOSED,
                     closure_note(working_dates[date_idx])))
    /\ date_idx' = date_idx + 1
    /\ UNCHANGED <<inputs, staff_list, working_dates, warnings, pc, runs,
                   prev_rota, prev_summary, last_assigned_staff>>

\* lines 39-57: an iteration on a closure date
ClosureDay ==
    /\ pc = "loop"
    /\ date_idx <= Len(working_dates)
    /\ is_closure(working_dates[date_idx])
    /\ rota_data' = Append(rota_data,
           new_entry(working_dates[date_idx], CLOSED,
                     closure_note(working_dates[date_idx])))
    /\ last_assigned_staff' = None
    /\ date_idx' = date_idx + 1
    /\ UNCHANGED <<inputs, staff_list, working_dates, warnings, pc, runs,
                   prev_rota, prev_summary>>

\* variant: no UNASSIGNED branch; min() of an empty pool raises and the run
\* ends there
StaffedDay_min_of_empty ==
    /\ pc = "loop"
    /\ date_idx <= Len(working_dates)
    /\ ~is_closure(working_dates[date_idx])
    /\ selection_pool(working_dates[date_idx]) # <<>>
    /\ LET date == working_dates[date_idx]
           pool == selection_pool(date)
       IN \E selected \in choice(candidates(pool)) :
             /\ rota_data' = Append(rota_data,
                    new_entry(date, staff_list[selected].name,
                              holiday_note(date)))
             /\ staff_list' = assign(selected, date)
             /\ last_assigned_staff' = staff_list[selected].name
    /\ date_idx' = date_idx + 1
    /\ UNCHANGED <<inputs, working_dates, warnings, pc, runs, prev_rota,
                   prev_summary>>

\* lines 39-45 and 59-112: an iteration on a date that is not a closure
StaffedDay ==
    /\ pc = "loop"
    /\ date_idx <= Len(working_dates)
    /\ ~is_closure(working_dates[date_idx])
    /\ LET date == working_dates[date_idx]
           pool == selection_pool(date)
       IN IF pool # <<>>
          THEN \E selected \in choice(candidates(pool)) :
                  /\ rota_data' = Append(rota_data,
                         new_entry(date, staff_list[selected].name,
                                   holiday_note(date)))
                  /\ staff_list' = assign(selected, date)
                  /\ last_assigned_staff' = staff_list[selected].name
          ELSE /\ rota_data' = Append(rota_data,
                      new_entry(date, UNASSIGNED, holiday_note(date)))
               /\ staff_list' = staff_list
               /\ last_assigned_staff' = None
    /\ date_idx' = date_idx + 1
    /\ UNCHANGED <<inputs, working_dates, warnings, pc, runs, prev_rota,
                   prev_summary>>

\* line 113 and line 182: the loop is over, the rota is returned and validated
ReturnAndValidate ==
    /\ pc = "loop"
    /\ date_idx > Len(working_dates)
    /\ warnings' = validate_shifts(rota_data)
    /\ pc' = "done"
    /\ UNCHANGED <<inputs, staff_list, working_dates, date_idx, rota_data,
                   last_assigned_staff, runs, prev_rota, prev_summary>>

\* validate_shifts called on a schedule of its own (lines 115-127)
ValidateShifts ==
    /\ pc = "validate"
    /\ warnings' = validate_shifts(rota_data)
    /\ pc' = "validated"
    /\ UNCHANGED <<inputs, staff_list, working_dates, date_idx, rota_data,
                   last_assigned_staff, runs, prev_rota, prev_summary>>

Next ==
    \/ GenerateRotaButton
    \/ ClosureDay
    \/ StaffedDay
    \/ ReturnAndValidate

Spec == Init /\ [][Next]_vars

NextValidator == ValidateShifts

SpecValidator == InitValidator /\ [][NextValidator]_vars

\* ------------------------------------------------- vocabulary of the claims
\* the date an emitted entry is about, read back from its Date field
EntryDate(j) == strptime_date(rota_data[j].Date)

\* staff member k may work on date d: office day and not on holiday
Eligible(k, d) ==
    /\ weekday(d) \in staff_list[k].office_days
    /\ d \notin staff_list[k].holidays

Staffed(j) == rota_data[j].Shift \notin {CLOSED, UNASSIGNED}

EntriesOf(k) ==
    {j \in Indices(rota_data) : rota_data[j].Shift = staff_list[k].name}

RECURSIVE SumCounts(_)
SumCounts(n) ==
    IF n = 0 THEN 0 ELSE staff_list[n].shift_count + SumCounts(n - 1)

\* the step just taken emitted an entry that gives the date to staff member k
Selects(k) ==
    /\ pc = "loop"
    /\ date_idx <= Len(working_dates)
    /\ Len(rota_data') = Len(rota_data) + 1
    /\ rota_data'[Len(rota_data')].Shift = staff_list[k].name

\* ----------------------------------------------------------------- claims
\* C1: no entry gives a date to a staff member whose holidays contain that
\* date, whatever the roster, the closures and the tie-break are.
C1_HolidayExclusion ==
    \A j \in Indices(rota_data) : \A k \in Indices(staff_list) :
        rota_data[j].Shift = staff_list[k].name
            => EntryDate(j) \notin staff_list[k].holidays

\* a staffed entry on a date on which another member, whose office day it is,
\* is on holiday
C1_Witness ==
    \E j \in Indices(rota_data) : \E k \in Indices(staff_list) :
        /\ Staffed(j)
        /\ EntryDate(j) \in staff_list[k].holidays
        /\ weekday(EntryDate(j)) \in staff_list[k].office_days

\* C2: the entries emitted so far are one per processed working date, in the
\* order of the working-date sequence, which is the ascending sequence of the
\* Monday-to-Friday dates of the month; a finished run has one entry per
\* working date; every Shift is a staff name, CLOSED or UNASSIGNED.
C2_Completeness ==
    /\ pc # "idle" =>
          /\ \A a, b \in Indices(working_dates) :
                a < b => working_dates[a] < working_dates[b]
          /\ {working_dates[a] : a \in Indices(working_dates)}
                = {d \in 1..NumDays : weekday(d) < 5}
    /\ Len(rota_data) = date_idx - 1
    /\ pc = "done" => Len(rota_data) = Len(working_dates)
    /\ \A j \in Indices(rota_data) :
          /\ EntryDate(j) = working_dates[j]
          /\ rota_data[j].Shift # None
          /\ \/ rota_data[j].Shift \in {CLOSED, UNASSIGNED}
             \/ \E k \in Indices(staff_list) :
                   rota_data[j].Shift = staff_list[k].name

\* a finished run whose rota holds a closure, an unassigned and a staffed entry
C2_Witness ==
    /\ pc = "done"
    /\ \E j \in Indices(rota_data) : rota_data[j].Shift = CLOSED
    /\ \E j \in Indices(rota_data) : rota_data[j].Shift = UNASSIGNED
    /\ \E j \in Indices(rota_data) : Staffed(j)

\* C3: an entry is CLOSED exactly when its date is a closure day, whoever is
\* available; entries exist only for working dates, so a closure on a weekend
\* date yields no entry and no CLOSED entry elsewhere.
C3_ClosurePrecedence ==
    /\ \A j \in Indices(rota_data) :
          /\ weekday(EntryDate(j)) < 5
          /\ (EntryDate(j) \in closure_days) <=> (rota_data[j].Shift = CLOSED)
    /\ pc = "done" =>
          Cardinality({j \in Indices(rota_data) : rota_data[j].Shift = CLOSED})
             = Cardinality({d \in closure_days :
                              d \in 1..NumDays /\ weekday(d) < 5})

\* a finished run with a closure on a weekend date and a closure on a working
\* date on which somebody could have worked
C3_Witness ==
    /\ pc = "done"
    /\ \E d \in closure_days : d \in 1..NumDays /\ weekday(d) >= 5
    /\ \E j \in Indices(rota_data) : \E k \in Indices(staff_list) :
          /\ rota_data[j].Shift = CLOSED
          /\ Eligible(k, EntryDate(j))

\* C4: on a date that is not a closure the entry is UNASSIGNED exactly when
\* no staff member has that weekday as office day and is off holiday.
C4_Coverage ==
    \A j \in Indices(rota_data) :
        EntryDate(j) \notin closure_days =>
            ((rota_data[j].Shift = UNASSIGNED)
                <=> ~ \E k \in Indices(staff_list) : Eligible(k, EntryDate(j)))

\* the same person on two adjacent entries, and an unassigned entry
C4_Witness ==
    /\ \E j \in Indices(rota_data) :
          /\ j > 1
          /\ Staffed(j)
          /\ rota_data[j].Shift = rota_data[j - 1].Shift
    /\ \E j \in Indices(rota_data) : rota_data[j].Shift = UNASSIGNED

\* C5: every staffed entry falls on an office day of the person it names.
C5_OfficeDays ==
    \A j \in Indices(rota_data) : \A k \in Indices(staff_list) :
        rota_data[j].Shift = staff_list[k].name
            => weekday(EntryDate(j)) \in staff_list[k].office_days

\* a staffed entry on a date that is no office day of another member who is
\* not on holiday then
C5_Witness ==
    \E j \in Indices(rota_data) : \E k \in Indices(staff_list) :
        /\ Staffed(j)
        /\ rota_data[j].Shift # staff_list[k].name
        /\ EntryDate(j) \notin staff_list[k].holidays
        /\ weekday(EntryDate(j)) \notin staff_list[k].office_days

\* C6 as stated: no step selects a member while another member eligible on
\* that date has a strictly lower shift_count.
C6_FairnessAsStated ==
    [][\A sel, k \in Indices(staff_list) :
          (Selects(sel) /\ Eligible(k, working_dates[date_idx]))
             => ~(staff_list[k].shift_count < staff_list[sel].shift_count)]_vars

\* C6 amended: no step selects a member while another member eligible on that
\* date, other than the one assigned on the previous processed day, has a
\* strictly lower shift_count.
C6_FairnessAmongOthers ==
    [][\A sel, k \in Indices(staff_list) :
          (/\ Selects(sel)
           /\ Eligible(k, working_dates[date_idx])
           /\ staff_list[k].name # last_assigned_staff)
             => ~(staff_list[k].shift_count < staff_list[sel].shift_count)]_vars

\* the last entry went to a member although another eligible member, not the
\* one of the entry before, stood by with a strictly higher count
C6_Witness ==
    /\ Len(rota_data) >= 2
    /\ \E sel, k \in Indices(staff_list) :
          LET j == Len(rota_data) IN
          /\ rota_data[j].Shift = staff_list[sel].name
          /\ k # sel
          /\ Eligible(k, EntryDate(j))
          /\ rota_data[j - 1].Shift # staff_list[k].name
          /\ staff_list[k].shift_count > staff_list[sel].shift_count - 1

\* C7: after every processed date the shift counts add up to the number of
\* entries that are neither CLOSED nor UNASSIGNED.
C7_LoadConservation ==
    SumCounts(Len(staff_list))
        = Cardinality({j \in Indices(rota_data) : Staffed(j)})

\* a finished run with two staffed entries, a closure and an unassigned day
C7_Witness ==
    /\ pc = "done"
    /\ Cardinality({j \in Indices(rota_data) : Staffed(j)}) >= 2
    /\ \E j \in Indices(rota_data) : rota_data[j].Shift = CLOSED
    /\ \E j \in Indices(rota_data) : rota_data[j].Shift = UNASSIGNED

\* C8: after every processed date each member has as many assigned dates as
\* shifts counted.
C8_Bookkeeping ==
    \A k \in Indices(staff_list) :
        Cardinality(staff_list[k].assigned_dates) = staff_list[k].shift_count

\* during the loop, a member with two shifts next to one with one
C8_Witness ==
    /\ pc = "loop"
    /\ \E k, m \in Indices(staff_list) :
          /\ staff_list[k].shift_count = 2
          /\ staff_list[m].shift_count = 1

\* C9: in every run, also a later one, a member's shift_count and
\* assigned_dates are those of the entries of this run's rota, and the loop
\* of every run starts from the reset state.
C9_RunIndependence ==
    /\ \A k \in Indices(staff_list) :
          /\ staff_list[k].shift_count = Cardinality(EntriesOf(k))
          /\ staff_list[k].assigned_dates
                = {EntryDate(j) : j \in EntriesOf(k)}
    /\ (pc = "loop" /\ date_idx = 1) =>
          /\ rota_data = <<>>
          /\ last_assigned_staff = None
          /\ \A k \in Indices(staff_list) :
                /\ staff_list[k].shift_count = 0
                /\ staff_list[k].assigned_dates = {}

\* a second run with the random tie-break that ended with two members
\* holding two shifts each
C9_Witness ==
    /\ runs = 2
    /\ pc = "done"
    /\ policy = "random"
    /\ \E k, m \in Indices(staff_list) :
          /\ k # m
          /\ staff_list[k].shift_count >= 2
          /\ staff_list[m].shift_count >= 2

\* C10: when random.choice picks the first candidate, a run ends with the
\* entries and the shift counts of the run before it.
C10_Determinism ==
    (policy = "first" /\ runs >= 2 /\ pc = "done") =>
        /\ rota_data = prev_rota
        /\ summary = prev_summary

\* a second pick-first run on a roster whose first two members tie on the
\* first working date and are both given shifts
C10_Witness ==
    /\ policy = "first"
    /\ runs = 2
    /\ pc = "done"
    /\ Len(staff_list) >= 2
    /\ Eligible(1, working_dates[1])
    /\ Eligible(2, working_dates[1])
    /\ working_dates[1] \notin closure_days
    /\ staff_list[1].shift_count >= 1
    /\ staff_list[2].shift_count >= 1

\* C11: the warnings validate_shifts returns for the schedule generate_rota
\* produced with the same roster are empty.
C11_NoWarnings ==
    pc = "done" => warnings = <<>>

\* a validated rota with a staffed entry on a date on which a member whose
\* office day it is, is on holiday, and with a closure on a holiday
C11_Witness ==
    /\ pc = "done"
    /\ \E j \in Indices(rota_data) : \E k \in Indices(staff_list) :
          /\ Staffed(j)
          /\ weekday(EntryDate(j)) \in staff_list[k].office_days
          /\ EntryDate(j) \in staff_list[k].holidays
    /\ \E j \in Indices(rota_data) : \E k \in Indices(staff_list) :
          /\ rota_data[j].Shift = CLOSED
          /\ EntryDate(j) \in staff_list[k].holidays

C12_WitnessAllClosed ==
    /\ pc = "done"
    /\ Len(rota_data) >= 3
    /\ \A j \in Indices(rota_data) : rota_data[j].Shift = CLOSED

\* C13: when two adjacent entries name the same member, that member was the
\* only one eligible on the second date.
C13_RepeatOnlyWhenForced ==
    \A j \in Indices(rota_data) :
        (j > 1 /\ Staffed(j) /\ rota_data[j].Shift = rota_data[j - 1].Shift)
            => \A k \in Indices(staff_list) :
                  Eligible(k, EntryDate(j))
                      => staff_list[k].name = rota_data[j].Shift

\* the same member on a Friday and on the Monday after it, in a roster of two
C13_Witness ==
    /\ Len(staff_list) >= 2
    /\ \E j \in Indices(rota_data) :
          /\ j > 1
          /\ Staffed(j)
          /\ rota_data[j].Shift = rota_data[j - 1].Shift
          /\ weekday(EntryDate(j - 1)) = 4
          /\ weekday(EntryDate(j)) = 0

\* C14: last_assigned_staff is the Shift of the last emitted entry when that
\* is a staff name, and None when nothing was emitted yet or the last entry is
\* CLOSED or UNASSIGNED.
C14_LastAssigned ==
    last_assigned_staff =
        IF rota_data = <<>> THEN None
        ELSE IF Staffed(Len(rota_data)) THEN rota_data[Len(rota_data)].Shift
        ELSE None

\* the loop stands before a date on which the member of the entry before the
\* closure just processed is eligible
C14_Witness ==
    /\ pc = "loop"
    /\ date_idx <= Len(working_dates)
    /\ Len(rota_data) >= 2
    /\ rota_data[Len(rota_data)].Shift = CLOSED
    /\ Staffed(Len(rota_data) - 1)
    /\ \E k \in Indices(staff_list) :
          /\ staff_list[k].name = rota_data[Len(rota_data) - 1].Shift
          /\ Eligible(k, working_dates[date_idx])

\* the loop stands before a date that is not a closure
BeforeStaffedDay ==
    /\ pc = "loop"
    /\ date_idx <= Len(working_dates)
    /\ working_dates[date_idx] \notin closure_days

\* the eligible members, without the one assigned on the day before when that
\* leaves somebody
PoolAfterAvoidance(d) ==
    LET E == {k \in Indices(staff_list) : Eligible(k, d)}
        F == {k \in E : staff_list[k].name # last_assigned_staff}
    IN IF F # {} THEN F ELSE E

MinMembers(d) ==
    {k \in PoolAfterAvoidance(d) :
        \A m \in PoolAfterAvoidance(d) :
            staff_list[k].shift_count <= staff_list[m].shift_count}

\* the next iteration can give the date to member k
CanSelect(k) ==
    ENABLED (/\ StaffedDay
             /\ rota_data'[Len(rota_data')].Shift = staff_list[k].name)

\* C15: a step selects a member only if their shift_count is the minimum
\* over the pool left by the consecutive-avoidance filter, and with the
\* random tie-break every member of that pool with the minimum count can be
\* selected.
C15_MinimumOfPool ==
    /\ [][\A sel \in Indices(staff_list) :
            Selects(sel) => sel \in MinMembers(working_dates[date_idx])]_vars
    /\ []((BeforeStaffedDay /\ policy = "random") =>
             \A k \in MinMembers(working_dates[date_idx]) : CanSelect(k))

\* before a date with a tie between two members who already have shifts
C15_Witness ==
    /\ BeforeStaffedDay
    /\ policy = "random"
    /\ date_idx > 1
    /\ Cardinality(MinMembers(working_dates[date_idx])) >= 2
    /\ \A k \in MinMembers(working_dates[date_idx]) :
          staff_list[k].shift_count >= 1

\* C16: an iteration appends one entry and keeps the entries before it; a
\* CLOSED or UNASSIGNED one leaves the staff state as it is, a staffed one adds
\* 1 to the count and the date to the assigned dates of the named member only;
\* no step changes a name, an office-day set or a holiday set, and returning
\* and validating leaves the entries alone.
C16_Frame ==
    [][/\ Len(staff_list') = Len(staff_list)
       /\ \A k \in Indices(staff_list) :
             /\ staff_list'[k].name = staff_list[k].name
             /\ staff_list'[k].office_days = staff_list[k].office_days
             /\ staff_list'[k].holidays = staff_list[k].holidays
       /\ (pc = "loop" /\ pc' = "done") => rota_data' = rota_data
       /\ (pc = "loop" /\ pc' = "loop") =>
             LET d == working_dates[date_idx]
                 new == rota_data'[Len(rota_data')]
             IN /\ Len(rota_data') = Len(rota_data) + 1
                /\ SubSeq(rota_data', 1, Len(rota_data)) = rota_data
                /\ new.Shift \in {CLOSED, UNASSIGNED}
                      => staff_list' = staff_list
                /\ new.Shift \notin {CLOSED, UNASSIGNED}
                      => \E sel \in Indices(staff_list) :
                            /\ staff_list[sel].name = new.Shift
                            /\ staff_list'[sel].shift_count
                                  = staff_list[sel].shift_count + 1
                            /\ d \notin staff_list[sel].assigned_dates
                            /\ staff_list'[sel].assigned_dates
                                  = staff_list[sel].assigned_dates \cup {d}
                            /\ \A k \in Indices(staff_list) :
                                  k # sel => staff_list'[k] = staff_list[k]
      ]_vars

\* a rota with a closure entry whose last entry goes to one member while
\* another one holds shifts of earlier dates
C16_Witness ==
    /\ Len(rota_data) >= 3
    /\ \E j \in Indices(rota_data) : rota_data[j].Shift = CLOSED
    /\ \E sel, k \in Indices(staff_list) :
          /\ sel # k
          /\ rota_data[Len(rota_data)].Shift = staff_list[sel].name
          /\ staff_list[k].assigned_dates # {}

\* C17: while a run is in its loop no member's assigned_dates holds a date
\* that is still to be processed, so the primary pool is the fallback pool,
\* and an empty filtered primary pool means an empty fallback pool.
C17_FallbackIsDead ==
    pc = "loop" =>
        /\ \A j \in date_idx..Len(working_dates) :
              \A k \in Indices(staff_list) :
                  working_dates[j] \notin staff_list[k].assigned_dates
        /\ BeforeStaffedDay =>
              LET d == working_dates[date_idx]
              IN /\ available_staff(d) = back_to_back_candidates(d)
                 /\ avoid_last(available_staff(d)) = <<>>
                       => /\ avoid_last(back_to_back_candidates(d)) = <<>>
                          /\ selection_pool(d) = <<>>

\* in a second run, before a date nobody can take, with shifts already given
C17_Witness ==
    /\ runs = 2
    /\ BeforeStaffedDay
    /\ avoid_last(available_staff(working_dates[date_idx])) = <<>>
    /\ \E k \in Indices(staff_list) : staff_list[k].assigned_dates # {}

\* the Date of entry j is two digits naming a day of the month
WellFormed(j) ==
    /\ Len(rota_data[j].Date) = 2
    /\ EntryDate(j) \in 1..NumDays

\* the pairs (entry, member), entries first, members in roster order
EntryStaffPairs ==
    [n \in 1..(Len(rota_data) * Len(staff_list)) |->
        <<((n - 1) \div Len(staff_list)) + 1,
          ((n - 1) % Len(staff_list)) + 1>>]

HolidayConflicts ==
    SelectSeq(EntryStaffPairs,
              LAMBDA pr : /\ rota_data[pr[1]].Shift = staff_list[pr[2]].name
                          /\ EntryDate(pr[1]) \in staff_list[pr[2]].holidays)

\* C18: on a schedule with well-formed dates validate_shifts returns one
\* warning per pair (entry, member) with the entry's Shift the member's name
\* and the entry's date among the member's holidays, in schedule order and
\* roster order, and nothing else; it changes no entry and no staff state.
C18_ValidatorDetection ==
    /\ [](( /\ pc = "validated"
            /\ \A j \in Indices(rota_data) : WellFormed(j))
          => warnings =
                [i \in Indices(HolidayConflicts) |->
                   <<staff_list[HolidayConflicts[i][2]].name,
                     AssignedOnHoliday,
                     rota_data[HolidayConflicts[i][1]].Date>>])
    /\ [][rota_data' = rota_data /\ staff_list' = staff_list]_vars

\* a validated well-formed schedule with two different warnings
C18_Witness ==
    /\ pc = "validated"
    /\ \A j \in Indices(rota_data) : WellFormed(j)
    /\ Len(warnings) >= 2
    /\ warnings[1] # warnings[2]

\* members on holiday on date d, and the i-th of them in roster order
OnHolidayOn(d) == {k \in Indices(staff_list) : d \in staff_list[k].holidays}

NthOnHoliday(d, i) ==
    CHOOSE k \in OnHolidayOn(d) :
        Cardinality({m \in OnHolidayOn(d) : m <= k}) = i

\* the text that lists the members on holiday on date d
IsHolidayList(text, d) ==
    /\ Len(text) = 2 * Cardinality(OnHolidayOn(d)) - 1
    /\ \A i \in 1..Cardinality(OnHolidayOn(d)) :
          /\ text[2 * i - 1] = staff_list[NthOnHoliday(d, i)].name
          /\ i > 1 => text[2 * i - 2] = Comma

\* C19: the Notes of an entry are, after "University Closure" for a closure
\* entry, "On Holiday: " and the names in roster order of the members whose
\* holidays contain the date, whatever their office days and whoever was
\* assigned; nothing about holidays when nobody is on holiday.
C19_HolidayNotes ==
    \A j \in Indices(rota_data) :
        LET d == EntryDate(j)
            notes == rota_data[j].Notes
            closed == rota_data[j].Shift = CLOSED
            rest == IF closed THEN Tail(notes) ELSE notes
        IN /\ closed => (notes # <<>> /\ notes[1] = UniversityClosure)
           /\ OnHolidayOn(d) = {} => rest = <<>>
           /\ OnHolidayOn(d) # {} =>
                 /\ Len(rest) >= 2
                 /\ closed => (rest[1] = Bar /\ rest[2] = OnHoliday)
                 /\ ~closed => rest[1] = OnHoliday
                 /\ IsHolidayList(
                       SubSeq(rest, IF closed THEN 3 ELSE 2, Len(rest)), d)

\* an UNASSIGNED entry on an office day of two members who are both on
\* holiday and both named, and an entry naming a member on holiday on a date
\* that is no office day of theirs
C19_Witness ==
    /\ \E j \in Indices(rota_data) :
          /\ rota_data[j].Shift = UNASSIGNED
          /\ Cardinality(OnHolidayOn(EntryDate(j))) = 2
          /\ \A k \in OnHolidayOn(EntryDate(j)) :
                weekday(EntryDate(j)) \in staff_list[k].office_days
          /\ Len(rota_data[j].Notes) = 4
    /\ \E j \in Indices(rota_data) : \E k \in OnHolidayOn(EntryDate(j)) :
          weekday(EntryDate(j)) \notin staff_list[k].office_days

====
